---- MODULE Spec2Model ----
(***************************************************************************)
(* A model of pantalaimon's PanClient (src/pantalaimon/client.py): the     *)
(* sync loop with its backoff and cancellation, the key-verification and   *)
(* undecryptable-event callbacks with the tasks they spawn, and the        *)
(* decryption pipeline over sync and messages bodies.                      *)
(*                                                                         *)
(* Scheduling is asyncio's: one cooperative event loop.  A coroutine runs  *)
(* without interruption from one await that really suspends to the next,   *)
(* so every action below is one such stretch of code.  An await of an      *)
(* already finished future (asyncio.gather() of no tasks, a put on a queue *)
(* that is not full) does not suspend and is part of the same action.      *)
(***************************************************************************)
EXTENDS Integers, Sequences, FiniteSets, TLC

\* Bounds of the model.
MaxStarts == 1      \* calls of start_loop() (one more where restarts are studied)
MaxTasks == 2       \* tasks alive at a time (callbacks and to-device sends)
MaxEvents == 2      \* events carried by one sync response
MaxFaults == 2      \* consecutive network faults of the sync call
MaxQueue == 1       \* capacity of the notification queue
MaxCallers == 2     \* callers of encrypt() at a time

Loops == 1..(MaxStarts + 1)
SessionIds == {"s1", "s2"}
TxnIds == {"t1"}
MsgIds == {"m1"}
Devices == {"d1", "d2"}
Deleted == {"d2"}          \* devices whose record says deleted
ChangedSets == {{"d1", "d2"}}   \* what a key query reports changed
TaskIds == 1..MaxTasks
Callers == 1..MaxCallers

VARIABLES
    pc,                         \* per loop task: where it is suspended
    cancel,                     \* per loop task: Task.cancel() pending
    task,                       \* self.task (0: None)
    loop_running,               \* self.loop_running ("unset" before loop() ran)
    loop_stopped,               \* self.loop_stopped (asyncio.Event)
    synced,                     \* self.synced (asyncio.Event)
    stopper,                    \* a caller of loop_stop()
    waiter,                     \* a caller of synced.wait()
    tasks,                      \* every task spawned, by id
    key_verificatins_tasks,     \* self.key_verificatins_tasks (task ids)
    key_request_tasks,          \* self.key_request_tasks (task ids)
    gath,                       \* per loop task: the tasks its gather() awaits
    gres,                       \* per loop task: the exception its gather() holds
    outgoing_key_requests,      \* the engine's registry of sent key requests
    outgoing_to_device_messages,\* the engine's pending to-device messages
    queue,                      \* self.queue
    putmsg,                     \* per loop task: the message of a blocked put
    verified,                   \* devices marked verified
    cyc,                        \* per loop task: what its latest iteration did
    streak,                     \* per loop task: sync faults in a row
    naps,                       \* per loop task: backoff sleeps of that run
    starts,                     \* calls of start_loop() still to come
    quiet                       \* the server sends no events, the engine no messages

\* The decryption pipeline: the response body a caller hands over, mutated in
\* place, and the call made on it.
VARIABLES
    body,                       \* the event, messages body or sync body
    called                      \* the call: its arguments, the body as it was
                                \* before, and what the call returned or raised

VARIABLES
    enc,                        \* per caller of encrypt(): where the call is
    outbound                    \* rooms whose outbound group session is shared

VARIABLES
    delivered                   \* the key-verification event last handed to
                                \* key_verification_cb on its own

evars == <<enc, outbound, delivered>>

dvars == <<body, called, evars>>

lvars == <<pc, cancel, task, loop_running, loop_stopped, synced, stopper, waiter,
           tasks, key_verificatins_tasks, key_request_tasks, gath, gres,
           outgoing_key_requests, outgoing_to_device_messages, queue, putmsg,
           verified, cyc, streak, naps, starts, quiet>>

vars == <<lvars, dvars>>

Terminal == {"stopped", "failed", "cancelled"}
Joins == {"send", "verif", "keyreq"}
PostStages == {"send", "verif", "keyreq", "upload", "query", "put"}
Suspended == PostStages \cup {"sync", "sleep", "backoff"}
Failures == {"lpe", "net", "other"}

Range(s) == {s[i] : i \in 1..Len(s)}
Min(S) == CHOOSE x \in S : \A y \in S : x <= y

\* What an iteration has done: st is how its sync call ended ("idle": not
\* with a 200 response or a network fault, or the iteration was abandoned).
NoCycle == [st |-> "idle", up |-> 0, q |-> 0, fired |-> 0]


(***************************************************************************)
(* Tasks and asyncio.gather.                                               *)
(***************************************************************************)
NoTask == [kind |-> "none", key |-> "none", st |-> "none"]

Free(ts) == {i \in TaskIds : ts[i].kind = "none"}

\* The id the next task gets (0: the model's bound on live tasks is reached).
NextId(ts) == IF Free(ts) = {} THEN 0 ELSE Min(Free(ts))

\* loop.create_task(...): the task exists, and has not run yet.
create_task(r, kind, key) ==
    IF NextId(r.tasks) = 0 THEN [r EXCEPT !.full = TRUE]
    ELSE [r EXCEPT !.tasks[NextId(r.tasks)] =
                      [kind |-> kind, key |-> key, st |-> "pending"]]

\* A finished task that no list and no gather() refers to is gone.
Collect(ts, refs) ==
    [i \in TaskIds |->
        IF ts[i].st # "pending" /\ i \notin refs THEN NoTask ELSE ts[i]]

\* The exception a gather() of the tasks `ids` holds when it is made: that of
\* the first task, in argument order, that has already failed.
FirstFailure(ts, ids) ==
    LET bad == {i \in 1..Len(ids) :
                   ids[i] \in TaskIds /\ ts[ids[i]].st \notin {"pending", "ok"}}
    IN  IF bad = {} THEN "none" ELSE ts[ids[Min(bad)]].st

\* await asyncio.gather(*ids) with at least one task: the loop suspends at `at`.
gather(r, ids, at) ==
    [r EXCEPT !.pc = at, !.gath = Range(ids), !.gres = FirstFailure(r.tasks, ids)]

\* The awaited gather() has an outcome: an exception, or every task's result.
GatherDone(l) ==
    \/ gres[l] # "none"
    \/ \A i \in gath[l] : tasks[i].st = "ok"

(***************************************************************************)
(* The part of the state one stretch of loop l's code reads and writes.    *)
(***************************************************************************)
View(l) ==
    [pc |-> pc[l], tasks |-> tasks,
     kv |-> key_verificatins_tasks, kr |-> key_request_tasks,
     gath |-> gath[l], gres |-> gres[l],
     reg |-> outgoing_key_requests, msgs |-> outgoing_to_device_messages,
     queue |-> queue, putmsg |-> putmsg[l], verified |-> verified,
     running |-> loop_running, stopped |-> loop_stopped, synced |-> synced,
     stopper |-> stopper, waiter |-> waiter,
     cyc |-> cyc[l], streak |-> streak[l], naps |-> naps[l],
     others |-> UNION {gath[k] : k \in Loops \ {l}}, full |-> FALSE,
     quiet |-> quiet]

Commit(l, r) ==
    /\ ~r.full
    /\ pc' = [pc EXCEPT ![l] = r.pc]
    /\ cancel' = [cancel EXCEPT ![l] = FALSE]
    /\ tasks' = Collect(r.tasks, Range(r.kv) \cup Range(r.kr) \cup r.gath \cup r.others)
    /\ key_verificatins_tasks' = r.kv
    /\ key_request_tasks' = r.kr
    /\ gath' = [gath EXCEPT ![l] = r.gath]
    /\ gres' = [gres EXCEPT ![l] = r.gres]
    /\ outgoing_key_requests' = r.reg
    /\ outgoing_to_device_messages' = r.msgs
    /\ queue' = r.queue
    /\ putmsg' = [putmsg EXCEPT ![l] = r.putmsg]
    /\ verified' = r.verified
    /\ loop_running' = r.running
    /\ loop_stopped' = r.stopped
    /\ synced' = r.synced
    /\ stopper' = r.stopper
    /\ waiter' = r.waiter
    /\ cyc' = [cyc EXCEPT ![l] = r.cyc]
    /\ streak' = [streak EXCEPT ![l] = r.streak]
    /\ naps' = [naps EXCEPT ![l] = r.naps]
    /\ UNCHANGED <<task, starts, quiet, dvars>>

(***************************************************************************)
(* The callbacks, run by the sync call while it handles its response.      *)
(***************************************************************************)
undecrypted_event_cb(r, session_id) ==
    IF session_id \notin r.reg
    THEN [create_task(r, "keyreq", session_id)
            EXCEPT !.kr = Append(@, NextId(r.tasks))]
    ELSE r

\* A callback that answers a Key event with a task as well.
KeyVerificationCbAnswersKey(r, kind, transaction_id) ==
    [create_task(r, IF kind = "start" THEN "accept" ELSE "sas", transaction_id)
        EXCEPT !.kv = Append(@, NextId(r.tasks))]

key_verification_cb(r, kind, transaction_id) ==
    CASE kind = "start" ->
            [create_task(r, "accept", transaction_id)
                EXCEPT !.kv = Append(@, NextId(r.tasks))]
      [] kind = "mac" ->
            [create_task(r, "sas", transaction_id)
                EXCEPT !.kv = Append(@, NextId(r.tasks))]
      [] OTHER -> r

\* The events of a sync response: undecryptable room events, key-verification
\* to-device events, and forwarded room keys (which resolve a key request).
Events ==
    [ev : {"undec", "fwdkey"}, key : SessionIds]
        \cup [ev : {"start", "key", "mac"}, key : TxnIds]

EventSeqs == UNION {[1..n -> Events] : n \in 0..MaxEvents}

HandleEvent(r, e) ==
    CASE e.ev = "undec" -> undecrypted_event_cb(r, e.key)
      [] e.ev = "fwdkey" -> [r EXCEPT !.reg = @ \ {e.key}]
      [] OTHER -> key_verification_cb(r, e.ev, e.key)

RECURSIVE HandleEvents(_, _)
HandleEvents(r, evs) ==
    IF evs = <<>> THEN r
    ELSE HandleEvents(HandleEvent(r, Head(evs)), Tail(evs))

(***************************************************************************)
(* PanClient.loop, one operator per stretch of code between two awaits     *)
(* that suspend.  should_upload_keys and should_query_keys are the         *)
(* engine's, read when the code reaches them (su, sq).                     *)
(***************************************************************************)
\* _loop_stop() without its loop_stopped.set().
LoopStopWithoutSet(r) == [r EXCEPT !.running = "False"]

_loop_stop(r) ==
    [r EXCEPT !.running = "False",
              !.stopped = TRUE,
              !.stopper = "idle"]

\* The top of `while True`: the next sync call is issued.
IssueSync(r) ==
    [r EXCEPT !.pc = "sync", !.gath = {}, !.gres = "none", !.putmsg = <<>>]

\* The end of an iteration without its synced.clear().
SyncedWithoutClear(r) ==
    [r EXCEPT !.synced = TRUE,
              !.waiter = IF @ = "waiting" THEN "released" ELSE @,
              !.cyc.fired = @ + 1]

\* self.synced.set(); self.synced.clear(): set() releases whoever waits,
\* who then returns from wait() whatever the event is by then.
Synced(r) ==
    [r EXCEPT !.synced = FALSE,
              !.waiter = IF @ = "waiting" THEN "released" ELSE @,
              !.cyc.fired = @ + 1]

EndOfCycle(r) == IssueSync(Synced(r))

\* verify_devices without its test of device.deleted.
VerifyAllDevices(r, changed) ==
    [r EXCEPT !.verified = @ \cup changed]

verify_devices(r, changed) ==
    [r EXCEPT !.verified = @ \cup {d \in changed : d \notin Deleted}]

\* DevicesMessage(self.user_id, key_query_response.changed)
user_id == "@pan:example.org"
DevicesMessage(user, changed) == [user_id |-> user, changed |-> changed]

\* await self.queue.put(message): suspends only while the queue is full.
QueuePut(r, message) ==
    IF Len(r.queue) < MaxQueue
    THEN EndOfCycle([r EXCEPT !.queue = Append(@, message)])
    ELSE [r EXCEPT !.pc = "put", !.putmsg = <<message>>]

\* Each stage gives the states the loop can be in at its next suspension:
\* should_upload_keys and should_query_keys are the engine's to decide.
QueryStage(r) ==
    LET r1 == [r EXCEPT !.cyc.q = @ + 1]
    IN  {[r1 EXCEPT !.pc = "query"], EndOfCycle(r1)}

UploadStage(r) ==
    LET r1 == [r EXCEPT !.cyc.up = @ + 1]
    IN  {[r1 EXCEPT !.pc = "upload"]} \cup QueryStage(r1)

KeyReqStage(r) ==
    IF r.kr = <<>> THEN UploadStage(r) ELSE {gather(r, r.kr, "keyreq")}

VerifStage(r) ==
    IF r.kv = <<>>
    THEN KeyReqStage([r EXCEPT !.kv = <<>>])
    ELSE {gather(r, r.kv, "verif")}

RECURSIVE SpawnSends(_, _)
SpawnSends(r, ms) ==
    IF ms = {} THEN <<r, <<>>>>
    ELSE LET m == CHOOSE x \in ms : TRUE
             rest == SpawnSends(create_task(r, "send", m), ms \ {m})
         IN  <<rest[1], <<NextId(r.tasks)>> \o rest[2]>>

send_to_device_messages(r) ==
    IF r.msgs = {} THEN VerifStage(r)
    ELSE LET sp == SpawnSends(r, r.msgs)
         IN  {gather(sp[1], sp[2], "send")}

\* The handlers without the one of the network faults.
RaiseWithoutBackoff(r, exc) ==
    LET r1 == [r EXCEPT !.gath = {}, !.gres = "none", !.putmsg = <<>>]
    IN  IF exc = "cancelled" THEN [_loop_stop(r1) EXCEPT !.pc = "stopped"]
        ELSE [r1 EXCEPT !.pc = "failed"]

\* An exception reaches the handlers of the loop's try statement.
Raise(r, exc) ==
    LET r1 == [r EXCEPT !.gath = {}, !.gres = "none", !.putmsg = <<>>,
                        !.cyc = IF @.st = "fault" THEN @ ELSE NoCycle,
                        !.streak = IF r.cyc.st = "fault" THEN @ ELSE 0,
                        !.naps = IF r.cyc.st = "fault" THEN @ ELSE 0]
    IN  CASE exc = "cancelled" -> [_loop_stop(r1) EXCEPT !.pc = "stopped"]
          [] exc = "net" -> [r1 EXCEPT !.pc = "backoff"]
          [] OTHER -> [r1 EXCEPT !.pc = "failed"]

(***************************************************************************)
(* The actions of the loop task l.                                         *)
(***************************************************************************)
\* The first step of the task start_loop() made.  A task cancelled before
\* its first step never runs the coroutine's body.
LoopBegin(l) ==
    /\ pc[l] = "new"
    /\ IF cancel[l]
       THEN Commit(l, [View(l) EXCEPT !.pc = "cancelled"])
       ELSE Commit(l, IssueSync([View(l) EXCEPT !.running = "True",
                                               !.stopped = FALSE,
                                               !.synced = FALSE]))

\* Task.cancel() is delivered as CancelledError at the await the loop is in.
Cancelled(l) ==
    /\ pc[l] \in Suspended
    /\ cancel[l]
    /\ Commit(l, Raise(View(l), "cancelled"))

\* The sync call returns a response, or raises.  The callbacks run while it
\* handles a response, and the engine may queue to-device messages.
SyncReturn(l) ==
    /\ pc[l] = "sync"
    /\ ~cancel[l]
    /\ LET run == cyc[l].st = "fault"
           r0 == [View(l) EXCEPT !.streak = IF run THEN @ ELSE 0,
                                 !.naps = IF run THEN @ ELSE 0]
           r1 == [r0 EXCEPT !.cyc = [NoCycle EXCEPT !.st = "ok"]]
           handled == {HandleEvents(r1, evs) :
                          evs \in IF quiet THEN {<<>>} ELSE EventSeqs}
           queued == {[r2 EXCEPT !.msgs = @ \cup ms] :
                         r2 \in handled,
                         ms \in IF quiet THEN {{}} ELSE SUBSET MsgIds}
       IN  \/ \E r3 \in queued : \E r4 \in send_to_device_messages(r3) :
                Commit(l, r4)
           \/ Commit(l, [r0 EXCEPT !.cyc = NoCycle, !.streak = 0, !.naps = 0,
                                   !.pc = "sleep"])
           \/ /\ r0.streak < MaxFaults
              /\ Commit(l, Raise([r0 EXCEPT !.cyc = [NoCycle EXCEPT !.st = "fault"],
                                            !.streak = @ + 1], "net"))
           \/ Commit(l, Raise([r0 EXCEPT !.cyc = NoCycle], "other"))

\* The sleep after a status that is not 200, without its `continue`: the
\* rest of the iteration runs (here with nothing to send or to join).
SleepThenFallThrough(r) == EndOfCycle([r EXCEPT !.kv = <<>>])

\* After asyncio.sleep(5) for a status that is not 200: continue.
SleepThenContinue(r) == IssueSync(r)

SleepDone(l) ==
    /\ pc[l] = "sleep"
    /\ ~cancel[l]
    /\ Commit(l, SleepThenContinue(View(l)))

SendDone(l) ==
    /\ pc[l] = "send"
    /\ ~cancel[l]
    /\ GatherDone(l)
    /\ IF gres[l] = "none"
       THEN \E r \in VerifStage(View(l)) : Commit(l, r)
       ELSE Commit(l, Raise(View(l), gres[l]))

\* The gather of the verification tasks is over: LocalProtocolError is
\* caught, the list is replaced by an empty one.
VerifDone(l) ==
    /\ pc[l] = "verif"
    /\ ~cancel[l]
    /\ GatherDone(l)
    /\ IF gres[l] \in {"none", "lpe"}
       THEN \E r \in KeyReqStage([View(l) EXCEPT !.kv = <<>>]) : Commit(l, r)
       ELSE Commit(l, Raise(View(l), gres[l]))

KeyReqDone(l) ==
    /\ pc[l] = "keyreq"
    /\ ~cancel[l]
    /\ GatherDone(l)
    /\ IF gres[l] = "none"
       THEN \E r \in UploadStage(View(l)) : Commit(l, r)
       ELSE Commit(l, Raise(View(l), gres[l]))

UploadDone(l) ==
    /\ pc[l] = "upload"
    /\ ~cancel[l]
    /\ \/ \E r \in QueryStage(View(l)) : Commit(l, r)
       \/ \E exc \in {"net", "other"} : Commit(l, Raise(View(l), exc))

\* keys_query() returns a KeysQueryResponse with its changed devices, or an
\* error response, or raises.
QueryDone(l) ==
    /\ pc[l] = "query"
    /\ ~cancel[l]
    /\ \/ \E changed \in ChangedSets :
            Commit(l, QueuePut(verify_devices(View(l), changed),
                               DevicesMessage(user_id, changed)))
       \/ Commit(l, EndOfCycle(View(l)))
       \/ \E exc \in {"net", "other"} : Commit(l, Raise(View(l), exc))

PutDone(l) ==
    /\ pc[l] = "put"
    /\ ~cancel[l]
    /\ Len(queue) < MaxQueue
    /\ Commit(l, EndOfCycle([View(l) EXCEPT !.queue = Append(@, putmsg[l][1])]))

\* asyncio.sleep(5) in the handler of the network faults is over.
BackoffDone(l) ==
    /\ pc[l] = "backoff"
    /\ ~cancel[l]
    /\ Commit(l, IssueSync([View(l) EXCEPT
                              !.naps = IF cyc[l].st = "fault" THEN @ + 1 ELSE @]))

loop(l) ==
    \/ LoopBegin(l)
    \/ Cancelled(l)
    \/ SyncReturn(l)
    \/ SleepDone(l)
    \/ SendDone(l)
    \/ VerifDone(l)
    \/ KeyReqDone(l)
    \/ UploadDone(l)
    \/ QueryDone(l)
    \/ PutDone(l)
    \/ BackoffDone(l)

(***************************************************************************)
(* The other tasks and callers.                                            *)
(***************************************************************************)
\* A spawned task finishes: request_room_key, accept_key_verification,
\* accept_short_auth_string or _to_device returns or raises.
TaskDone(i, out) ==
    /\ tasks[i].st = "pending"
    /\ tasks' = Collect([tasks EXCEPT ![i].st = out],
                        Range(key_verificatins_tasks) \cup Range(key_request_tasks)
                            \cup UNION {gath[l] : l \in Loops})
    /\ gres' = [l \in Loops |->
                  IF i \in gath[l] /\ gres[l] = "none" /\ out # "ok"
                  THEN out ELSE gres[l]]
    /\ outgoing_key_requests' =
          IF tasks[i].kind = "keyreq" /\ out = "ok"
          THEN outgoing_key_requests \cup {tasks[i].key}
          ELSE outgoing_key_requests
    /\ outgoing_to_device_messages' =
          IF tasks[i].kind = "send" /\ out = "ok"
          THEN outgoing_to_device_messages \ {tasks[i].key}
          ELSE outgoing_to_device_messages
    /\ UNCHANGED <<pc, cancel, task, loop_running, loop_stopped, synced, stopper,
                   waiter, key_verificatins_tasks, key_request_tasks, gath,
                   queue, putmsg, verified, cyc, streak, naps, starts, quiet, dvars>>

start_loop ==
    /\ \E l \in Loops :
         /\ starts > 0
         /\ starts' = starts - 1
         /\ pc[l] = "none"
         /\ \A k \in Loops : k < l => pc[k] # "none"
         /\ pc' = [pc EXCEPT ![l] = "new"]
         /\ task' = l
    /\ UNCHANGED <<cancel, loop_running, loop_stopped, synced, stopper, waiter,
                   tasks, key_verificatins_tasks, key_request_tasks, gath, gres,
                   outgoing_key_requests, outgoing_to_device_messages, queue,
                   putmsg, verified, cyc, streak, naps, quiet, dvars>>

\* Task.cancel() of a task that awaits a gather() without an outcome cancels
\* the tasks gathered; whoever else gathers one of them gets CancelledError.
CancelTask(l) ==
    LET kids == IF pc[l] \in Joins /\ ~GatherDone(l)
                THEN {i \in gath[l] : tasks[i].st = "pending"}
                ELSE {}
    IN  /\ cancel' = [cancel EXCEPT ![l] = TRUE]
        /\ tasks' = [i \in TaskIds |->
                       IF i \in kids THEN [tasks[i] EXCEPT !.st = "cancelled"]
                       ELSE tasks[i]]
        /\ gres' = [k \in Loops |->
                      IF k # l /\ gres[k] = "none" /\ gath[k] \cap kids # {}
                      THEN "cancelled" ELSE gres[k]]

\* loop_stop(): returns at once without a live task; loop_stopped.wait()
\* returns at once when the event is set, and else when _loop_stop() sets it.
loop_stop ==
    /\ stopper = "idle"
    /\ IF task = 0 \/ pc[task] \in Terminal
       THEN UNCHANGED <<cancel, tasks, gres, stopper>>
       ELSE /\ CancelTask(task)
            /\ stopper' = IF loop_stopped THEN "idle" ELSE "waiting"
    /\ UNCHANGED <<pc, task, loop_running, loop_stopped, synced, waiter,
                   key_verificatins_tasks, key_request_tasks, gath,
                   outgoing_key_requests, outgoing_to_device_messages, queue,
                   putmsg, verified, cyc, streak, naps, starts, quiet, dvars>>

\* A caller awaits self.synced.wait(): it returns at once when the event is
\* set, and else when set() releases it ("released": it has returned so).
AwaitSynced ==
    /\ waiter # "waiting"
    /\ waiter' = IF synced THEN "idle" ELSE "waiting"
    /\ UNCHANGED <<pc, cancel, task, loop_running, loop_stopped, synced, stopper,
                   tasks, key_verificatins_tasks, key_request_tasks, gath, gres,
                   outgoing_key_requests, outgoing_to_device_messages, queue,
                   putmsg, verified, cyc, streak, naps, starts, quiet, dvars>>

\* The consumer of the notification queue takes a message.
QueueGet ==
    /\ queue # <<>>
    /\ queue' = Tail(queue)
    /\ UNCHANGED <<pc, cancel, task, loop_running, loop_stopped, synced, stopper,
                   waiter, tasks, key_verificatins_tasks, key_request_tasks, gath,
                   gres, outgoing_key_requests, outgoing_to_device_messages,
                   putmsg, verified, cyc, streak, naps, starts, quiet, dvars>>

\* The fields PanClient.__init__ sets, and no task yet.
\* No call of encrypt() is under way.
NoEncrypt == [pc |-> "idle", room_id |-> "None", content |-> "None",
              attempts |-> 0, shares |-> 0, first |-> "none", ret |-> "none"]

\* No event has been handed to key_verification_cb on its own.
NoEvent == [ev |-> "none", key |-> "none", sas |-> FALSE, shown |-> FALSE,
            tick |-> FALSE]

Idle ==
    /\ pc = [l \in Loops |-> "none"]
    /\ cancel = [l \in Loops |-> FALSE]
    /\ task = 0
    /\ loop_running = "unset"
    /\ loop_stopped = FALSE
    /\ synced = FALSE
    /\ stopper = "idle"
    /\ waiter = "idle"
    /\ tasks = [i \in TaskIds |-> NoTask]
    /\ key_verificatins_tasks = <<>>
    /\ key_request_tasks = <<>>
    /\ gath = [l \in Loops |-> {}]
    /\ gres = [l \in Loops |-> "none"]
    /\ outgoing_key_requests = {}
    /\ outgoing_to_device_messages = {}
    /\ queue = <<>>
    /\ putmsg = [l \in Loops |-> <<>>]
    /\ verified = {}
    /\ cyc = [l \in Loops |-> NoCycle]
    /\ streak = [l \in Loops |-> 0]
    /\ naps = [l \in Loops |-> 0]
    /\ enc = [c \in Callers |-> NoEncrypt]
    /\ outbound = {}
    /\ delivered = NoEvent

\* No call of the decryption pipeline is studied.
NoCall == [op |-> "none", room_id |-> "None", ignore_failures |-> TRUE,
           arg |-> <<>>, ret |-> "none"]

Init ==
    /\ Idle
    /\ starts = MaxStarts
    /\ quiet = FALSE
    /\ body = <<>>
    /\ called = NoCall

Next ==
    \/ \E l \in Loops : loop(l)
    \/ \E i \in TaskIds, out \in {"ok"} \cup Failures : TaskDone(i, out)
    \/ start_loop
    \/ loop_stop
    \/ AwaitSynced
    \/ QueueGet

Spec == Init /\ [][Next]_vars

\* The event loop runs a task that was just created and a task that has a
\* cancellation to take; an await on the network may last forever.
FairSpec ==
    Spec /\ \A l \in Loops : WF_vars(LoopBegin(l)) /\ WF_vars(Cancelled(l))

(***************************************************************************)
(* Restarts: start_loop() may be called once more, also while a loop task  *)
(* is alive.  The server sends no events and the engine queues nothing,    *)
(* so no task is spawned.                                                  *)
(***************************************************************************)
RestartInit ==
    /\ Idle
    /\ starts = MaxStarts + 1
    /\ quiet = TRUE
    /\ body = <<>>
    /\ called = NoCall

RestartNext ==
    \/ \E l \in Loops :
          \/ LoopBegin(l)
          \/ Cancelled(l)
          \/ SyncReturn(l)
          \/ SleepDone(l)
          \/ UploadDone(l)
          \/ QueryDone(l)
          \/ PutDone(l)
          \/ BackoffDone(l)
    \/ start_loop
    \/ loop_stop
    \/ AwaitSynced
    \/ QueueGet

RestartSpec == RestartInit /\ [][RestartNext]_vars

(***************************************************************************)
(* The decryption pipeline.  A payload is a dictionary: a function from    *)
(* its keys, a key being absent when it is not in the domain.  The calls   *)
(* are synchronous and touch nothing of the loop.                          *)
(***************************************************************************)
MaxRooms == 2       \* rooms in the join section of a sync body
MaxBodyEvents == 3  \* events of one body, all timelines together

Megolm == "m.megolm.v1.aes-sha2"
Olm == "m.olm.v1.curve25519-aes-sha2"

\* self.rooms: "!enc" is encrypted, "!plain" is not, "!unknown" is no room
\* of the session.
RoomIds == {"!enc", "!plain", "!unknown"}
rooms == [r \in {"!enc", "!plain"} |-> [encrypted |-> (r = "!enc")]]

\* The engine's inbound group sessions, as <<room, session>>, and whether
\* the device that sent a session is verified.
InboundSessions == {<<"!enc", "s1">>}
SessionVerified == [s \in SessionIds |-> (s = "s1")]

\* dict.update(other)
Update(d, other) ==
    [k \in DOMAIN d \cup DOMAIN other |-> IF k \in DOMAIN other THEN other[k] ELSE d[k]]

MegolmContent(s) == [algorithm |-> Megolm, session_id |-> s, ciphertext |-> "AwgA"]
\* A megolm content whose plaintext is itself an encrypted event: the sender
\* chooses what it encrypts.
WrappedContent(s) == [algorithm |-> Megolm, session_id |-> s, ciphertext |-> "AwgB"]
Text(b) == [msgtype |-> "m.text", body |-> b]

\* The events a server may send: a chunk may hold any of them, a timeline
\* those that carry no room_id.
Samples == 1..8
TimelineSamples == Samples \ {6}
Sample(k) ==
    CASE k = 1 -> [type |-> "m.room.encrypted", content |-> MegolmContent("s1")]
      [] k = 2 -> [type |-> "m.room.encrypted", content |-> MegolmContent("s2")]
      [] k = 3 -> [type |-> "m.room.message", content |-> Text("hi")]
      [] k = 4 -> [type |-> "m.room.encrypted", content |-> [algorithm |-> Olm]]
      [] k = 5 -> [content |-> Text("hi")]
      [] k = 6 -> [type |-> "m.room.encrypted", content |-> MegolmContent("s1"),
                   room_id |-> "!enc"]
      [] k = 7 -> [type |-> "m.room.message", content |-> MegolmContent("s1")]
      [] k = 8 -> [type |-> "m.room.encrypted", content |-> WrappedContent("s1")]

unable_to_decrypt ==
    [type |-> "m.room.message",
     content |-> Text("** Unable to decrypt: The sender's device has not sent us the keys for this message. **")]

\* RoomEncryptedEvent.parse_event: the class of the event it returns, which
\* the library decides from content.algorithm (a payload that fails its
\* schema gives a BadEvent).
parse_event(event_dict) ==
    IF "content" \notin DOMAIN event_dict THEN "BadEvent"
    ELSE IF "algorithm" \notin DOMAIN event_dict["content"] THEN "BadEvent"
    ELSE IF event_dict["content"]["algorithm"] = Megolm THEN "MegolmEvent"
    ELSE IF event_dict["content"]["algorithm"] = Olm THEN "OlmEvent"
    ELSE "UnknownEncryptedEvent"

\* event.room_id, after the hint has filled it in.
EventRoom(event_dict, room_id) ==
    IF "room_id" \in DOMAIN event_dict THEN event_dict["room_id"] ELSE room_id

\* self.decrypt_event(event) of a megolm event: the decrypted event, or an
\* EncryptionError when the event has no room or the engine has no session.
CanDecrypt(event_dict, room_id) ==
    <<EventRoom(event_dict, room_id), event_dict["content"]["session_id"]>>
        \in InboundSessions

\* decrypted_event.source: the plaintext payload, which the ciphertext
\* determines.
DecryptedSource(event_dict, room_id) ==
    IF event_dict["content"]["ciphertext"] = "AwgB"
    THEN [type |-> "m.room.encrypted",
          content |-> MegolmContent(event_dict["content"]["session_id"]),
          room_id |-> EventRoom(event_dict, room_id)]
    ELSE [type |-> "m.room.message", content |-> Text("secret"),
          room_id |-> EventRoom(event_dict, room_id)]

\* The try statement with a handler that raises whatever ignore_failures is.
DecryptOrRaise(event_dict, room_id, ignore_failures) ==
    IF CanDecrypt(event_dict, room_id)
    THEN [event |->
            Update(Update(event_dict, DecryptedSource(event_dict, room_id)),
                   [decrypted |-> TRUE,
                    verified |-> SessionVerified[event_dict["content"]["session_id"]]]),
          ret |-> "True"]
    ELSE [event |-> event_dict, ret |-> "EncryptionError"]

\* The try statement of pan_decrypt_event, for a megolm event: the payload
\* as it leaves it, and "True", "False" or the exception raised.
TryDecrypt(event_dict, room_id, ignore_failures) ==
    IF CanDecrypt(event_dict, room_id)
    THEN [event |->
            Update(Update(event_dict, DecryptedSource(event_dict, room_id)),
                   [decrypted |-> TRUE,
                    verified |-> SessionVerified[event_dict["content"]["session_id"]]]),
          ret |-> "True"]
    ELSE IF ignore_failures
    THEN [event |-> Update(event_dict, unable_to_decrypt), ret |-> "False"]
    ELSE [event |-> event_dict, ret |-> "EncryptionError"]

\* pan_decrypt_event with the isinstance test left out: the engine refuses
\* what is no megolm event and the handler takes it for a failure.
DecryptAnyEvent(event_dict, room_id, ignore_failures) ==
    IF parse_event(event_dict) # "MegolmEvent"
    THEN IF ignore_failures
         THEN [event |-> Update(event_dict, unable_to_decrypt), ret |-> "False"]
         ELSE [event |-> event_dict, ret |-> "EncryptionError"]
    ELSE TryDecrypt(event_dict, room_id, ignore_failures)

pan_decrypt_event(event_dict, room_id, ignore_failures) ==
    IF parse_event(event_dict) # "MegolmEvent"
    THEN [event |-> event_dict, ret |-> "False"]
    ELSE TryDecrypt(event_dict, room_id, ignore_failures)

\* The events decrypt_messages_body hands on.
TypedEncrypted(event) ==
    "type" \in DOMAIN event /\ event["type"] = "m.room.encrypted"

\* A loop over events that calls pan_decrypt_event on each (with typed_only,
\* on each that TypedEncrypted) and ends at the first exception, the events
\* before it already rewritten.
RECURSIVE ForEvents(_, _, _, _, _)
ForEvents(events, i, typed_only, room_id, ignore_failures) ==
    IF i > Len(events) THEN [events |-> events, ret |-> "returned"]
    ELSE IF typed_only /\ ~TypedEncrypted(events[i])
    THEN ForEvents(events, i + 1, typed_only, room_id, ignore_failures)
    ELSE LET d == pan_decrypt_event(events[i], room_id, ignore_failures)
         IN  IF d.ret = "EncryptionError"
             THEN [events |-> events, ret |-> "EncryptionError"]
             ELSE ForEvents([events EXCEPT ![i] = d.event], i + 1, typed_only,
                            room_id, ignore_failures)

decrypt_messages_body(b) ==
    IF "chunk" \notin DOMAIN b THEN [body |-> b, ret |-> "returned"]
    ELSE LET d == ForEvents(b["chunk"], 1, TRUE, "None", TRUE)
         IN  [body |-> [b EXCEPT !["chunk"] = d.events], ret |-> d.ret]

\* The test of the room at the head of the loop of decrypt_sync_body.
Skipped(room_id) ==
    IF room_id \in DOMAIN rooms THEN ~rooms[room_id].encrypted ELSE TRUE

\* The loop over the joined rooms ending at the first room it skips.
RECURSIVE ForRoomsUntilSkip(_, _, _)
ForRoomsUntilSkip(join, i, ignore_failures) ==
    IF i > Len(join) THEN [join |-> join, ret |-> "returned"]
    ELSE IF Skipped(join[i].room_id)
    THEN [join |-> join, ret |-> "returned"]
    ELSE LET d == ForEvents(join[i].room_dict.timeline.events, 1, FALSE,
                            join[i].room_id, ignore_failures)
             j == [join EXCEPT ![i].room_dict.timeline.events = d.events]
         IN  IF d.ret = "EncryptionError"
             THEN [join |-> j, ret |-> "EncryptionError"]
             ELSE ForRoomsUntilSkip(j, i + 1, ignore_failures)

\* The loop over body["rooms"]["join"].items(), in the dictionary's order.
RECURSIVE ForRooms(_, _, _)
ForRooms(join, i, ignore_failures) ==
    IF i > Len(join) THEN [join |-> join, ret |-> "returned"]
    ELSE IF Skipped(join[i].room_id)
    THEN ForRooms(join, i + 1, ignore_failures)
    ELSE LET d == ForEvents(join[i].room_dict.timeline.events, 1, FALSE,
                            join[i].room_id, ignore_failures)
             j == [join EXCEPT ![i].room_dict.timeline.events = d.events]
         IN  IF d.ret = "EncryptionError"
             THEN [join |-> j, ret |-> "EncryptionError"]
             ELSE ForRooms(j, i + 1, ignore_failures)

decrypt_sync_body(b, ignore_failures) ==
    LET d == ForRooms(b.rooms.join, 1, ignore_failures)
    IN  [body |-> [b EXCEPT !.rooms.join = d.join], ret |-> d.ret]

\* The bodies a caller may hand over.
Ops == {"pan_decrypt_event", "decrypt_messages_body", "decrypt_sync_body"}
EventsOf(t) == [i \in 1..Len(t) |-> Sample(t[i])]
RoomOrders ==
    {rs \in UNION {[1..n -> RoomIds] : n \in 0..MaxRooms} :
        \A i, j \in 1..Len(rs) : i # j => rs[i] # rs[j]}

\* The events before the timeline of the i-th room, the timelines having
\* the lengths lens.
RECURSIVE Offset(_, _)
Offset(lens, i) == IF i = 1 THEN 0 ELSE Offset(lens, i - 1) + lens[i - 1]

SyncBodyOf(rs, t, lens) ==
    [rooms |-> [join |-> [i \in 1..Len(rs) |->
        [room_id |-> rs[i],
         room_dict |-> [timeline |-> [events |->
            EventsOf(SubSeq(t, Offset(lens, i) + 1, Offset(lens, i) + lens[i]))]]]]]]

DecryptInit ==
    /\ Idle
    /\ starts = 0
    /\ quiet = TRUE
    /\ \E op \in Ops :
          /\ called = [NoCall EXCEPT !.op = op]
          /\ \/ op = "pan_decrypt_event" /\ \E k \in Samples : body = Sample(k)
             \/ op = "decrypt_messages_body" /\ body = [start |-> "t0"]
             \/ op = "decrypt_messages_body"
                  /\ \E n \in 0..MaxBodyEvents :
                       \E t \in [1..n -> Samples] : body = [chunk |-> EventsOf(t)]
             \/ op = "decrypt_sync_body"
                  /\ \E rs \in RoomOrders, n \in 0..MaxBodyEvents :
                       \E t \in [1..n -> TimelineSamples],
                          lens \in [1..Len(rs) -> 0..n] :
                            /\ Offset(lens, Len(rs) + 1) = n
                            /\ body = SyncBodyOf(rs, t, lens)

Returned(op, room_id, ignore_failures, ret) ==
    [op |-> op, room_id |-> room_id, ignore_failures |-> ignore_failures,
     arg |-> body, ret |-> ret]

CallDecryptEvent ==
    /\ called.op = "pan_decrypt_event"
    /\ \E room_id \in RoomIds \cup {"None"}, ignore_failures \in BOOLEAN :
          LET d == pan_decrypt_event(body, room_id, ignore_failures)
          IN  /\ body' = d.event
              /\ called' = Returned("pan_decrypt_event", room_id, ignore_failures, d.ret)
    /\ UNCHANGED <<lvars, evars>>

CallDecryptMessagesBody ==
    /\ called.op = "decrypt_messages_body"
    /\ LET d == decrypt_messages_body(body)
       IN  /\ body' = d.body
           /\ called' = Returned("decrypt_messages_body", "None", TRUE, d.ret)
    /\ UNCHANGED <<lvars, evars>>

CallDecryptSyncBody ==
    /\ called.op = "decrypt_sync_body"
    /\ \E ignore_failures \in BOOLEAN :
          LET d == decrypt_sync_body(body, ignore_failures)
          IN  /\ body' = d.body
              /\ called' = Returned("decrypt_sync_body", "None", ignore_failures, d.ret)
    /\ UNCHANGED <<lvars, evars>>

DecryptNext ==
    \/ CallDecryptEvent
    \/ CallDecryptMessagesBody
    \/ CallDecryptSyncBody

DecryptSpec == DecryptInit /\ [][DecryptNext]_vars

(***************************************************************************)
(* encrypt().  The engine's group_encrypt refuses a room whose outbound    *)
(* group session has not been shared; share_group_session is awaited, so   *)
(* other callers and the engine run meanwhile.                             *)
(***************************************************************************)
Contents == {"hi", "bye"}

\* super().encrypt(room_id, msgtype, content): what it returns or raises.
SuperEncrypt(ob, room_id) ==
    IF room_id \notin DOMAIN rooms THEN "LocalProtocolError"
    ELSE IF ~rooms[room_id].encrypted THEN "LocalProtocolError"
    ELSE IF room_id \notin ob THEN "GroupEncryptionError"
    ELSE "encrypted"

\* A handler that shares and tries again for as long as the session is
\* missing.
RetryUntilShared(e, ob) ==
    LET r == SuperEncrypt(ob, e.room_id)
    IN  IF r = "GroupEncryptionError"
        THEN [e EXCEPT !.pc = "sharing", !.attempts = @ + 1, !.shares = @ + 1]
        ELSE [e EXCEPT !.pc = "done", !.attempts = @ + 1, !.ret = r]

\* The second super().encrypt(), after share_group_session returned: what
\* it returns or raises is what encrypt() returns or raises.
Retry(e, ob) ==
    [e EXCEPT !.pc = "done", !.attempts = @ + 1, !.ret = SuperEncrypt(ob, e.room_id)]

\* encrypt() up to its first suspension: the first attempt and, on a
\* GroupEncryptionError, the call of share_group_session.
Encrypt(c, room_id, content) ==
    /\ enc[c].pc \in {"idle", "done"}
    /\ LET first == SuperEncrypt(outbound, room_id)
           e == [NoEncrypt EXCEPT !.room_id = room_id, !.content = content,
                                  !.attempts = 1, !.first = first]
       IN  enc' = [enc EXCEPT ![c] =
                IF first = "GroupEncryptionError"
                THEN [e EXCEPT !.pc = "sharing", !.shares = 1]
                ELSE [e EXCEPT !.pc = "done", !.ret = first]]
    /\ UNCHANGED <<outbound, delivered, lvars, body, called>>

\* share_group_session ends: with the session shared, with an error
\* response (nothing shared), or by raising.
ShareDone(c, out) ==
    /\ enc[c].pc = "sharing"
    /\ \/ /\ out = "shared"
          /\ outbound' = outbound \cup {enc[c].room_id}
          /\ enc' = [enc EXCEPT ![c] = Retry(@, outbound')]
       \/ /\ out = "error"
          /\ outbound' = outbound
          /\ enc' = [enc EXCEPT ![c] = Retry(@, outbound')]
       \/ /\ out = "raise"
          /\ outbound' = outbound
          /\ enc' = [enc EXCEPT ![c].pc = "done", ![c].ret = "OlmTrustError"]
    /\ UNCHANGED <<delivered, lvars, body, called>>

\* The engine drops an outbound group session (rotation, a member left).
Invalidate(room_id) ==
    /\ room_id \in outbound
    /\ outbound' = outbound \ {room_id}
    /\ UNCHANGED <<enc, delivered, lvars, body, called>>

EncryptInit ==
    /\ Idle
    /\ starts = 0
    /\ quiet = TRUE
    /\ body = <<>>
    /\ called = NoCall

EncryptNext ==
    \/ \E c \in Callers, room_id \in RoomIds, content \in Contents :
          Encrypt(c, room_id, content)
    \/ \E c \in Callers, out \in {"shared", "error", "raise"} : ShareDone(c, out)
    \/ \E room_id \in RoomIds : Invalidate(room_id)

EncryptSpec == EncryptInit /\ [][EncryptNext]_vars

(***************************************************************************)
(* The dispatcher with several messages: the engine queues to-device       *)
(* messages at any time, the server sends no events.                       *)
(***************************************************************************)
DispatchMsgIds == {"m1", "m2"}

\* The engine adds a message to outgoing_to_device_messages.
EngineQueues(m) ==
    /\ m \notin outgoing_to_device_messages
    /\ outgoing_to_device_messages' = outgoing_to_device_messages \cup {m}
    /\ UNCHANGED <<pc, cancel, task, loop_running, loop_stopped, synced, stopper,
                   waiter, tasks, key_verificatins_tasks, key_request_tasks, gath,
                   gres, outgoing_key_requests, queue, putmsg, verified, cyc,
                   streak, naps, starts, quiet, dvars>>

DispatchInit ==
    /\ Idle
    /\ starts = MaxStarts
    /\ quiet = TRUE
    /\ body = <<>>
    /\ called = NoCall

DispatchNext ==
    \/ \E l \in Loops :
          \/ LoopBegin(l)
          \/ Cancelled(l)
          \/ SyncReturn(l)
          \/ SleepDone(l)
          \/ SendDone(l)
          \/ UploadDone(l)
          \/ QueryDone(l)
          \/ PutDone(l)
          \/ BackoffDone(l)
    \/ \E i \in TaskIds, out \in {"ok"} \cup Failures : TaskDone(i, out)
    \/ \E m \in DispatchMsgIds : EngineQueues(m)
    \/ start_loop
    \/ loop_stop
    \/ AwaitSynced
    \/ QueueGet

DispatchSpec == DispatchInit /\ [][DispatchNext]_vars

(***************************************************************************)
(* key_verification_cb on its own: the to-device events of key             *)
(* verifications are handed to it one at a time, and the tasks it made     *)
(* finish.                                                                 *)
(***************************************************************************)
VerificationTxnIds == {"t1", "t2"}

\* The branch of a KeyVerificationKey logs the emoji of the handshake
\* self.key_verifications holds for the transaction, if it holds one.
ShowsEmoji(kind, sas) == kind = "key" /\ sas

\* The engine hands a key-verification event to the callback; sas says
\* whether self.key_verifications has a handshake for the transaction.
Deliver(kind, transaction_id, sas) ==
    LET r == key_verification_cb(View(1), kind, transaction_id)
    IN  /\ ~r.full
        /\ tasks' = r.tasks
        /\ key_verificatins_tasks' = r.kv
        /\ key_request_tasks' = r.kr
        /\ delivered' = [ev |-> kind, key |-> transaction_id, sas |-> sas,
                         shown |-> ShowsEmoji(kind, sas),
                         tick |-> ~delivered.tick]
        /\ UNCHANGED <<pc, cancel, task, loop_running, loop_stopped, synced,
                       stopper, waiter, gath, gres, outgoing_key_requests,
                       outgoing_to_device_messages, queue, putmsg, verified,
                       cyc, streak, naps, starts, quiet, body, called, enc,
                       outbound>>

CallbackInit ==
    /\ Idle
    /\ starts = 0
    /\ quiet = TRUE
    /\ body = <<>>
    /\ called = NoCall

CallbackNext ==
    \/ \E kind \in {"start", "key", "mac"}, transaction_id \in VerificationTxnIds,
          sas \in BOOLEAN : Deliver(kind, transaction_id, sas)
    \/ \E i \in TaskIds, out \in {"ok"} \cup Failures : TaskDone(i, out)

CallbackSpec == CallbackInit /\ [][CallbackNext]_vars

(***************************************************************************)
(* The claims.                                                             *)
(***************************************************************************)

\* C1: at most one key-request task is outstanding per session identifier:
\* a second undecryptable event of the same session, arriving before the
\* first request is resolved, spawns no second task.
C1_OneRequestPerSession ==
    \A s \in SessionIds :
        Cardinality({i \in TaskIds : /\ tasks[i].kind = "keyreq"
                                     /\ tasks[i].key = s
                                     /\ tasks[i].st = "pending"}) <= 1

\* A cancellation the loop task has yet to take at a suspension point.
CancelPending(l) == cancel[l] /\ pc[l] \in Suspended

\* C2: a loop cancelled by loop_stop() at any of its suspension points
\* terminates: the cancellation does not stay pending for ever, and it ends
\* only by the loop terminating, which sets loop_stopped, clears
\* loop_running and lets loop_stop() return; loop_stop() does not stay
\* waiting for ever on a loop it cancelled at a suspension point, and it
\* returns only when loop_stopped is set.
C2_StopTerminates ==
    /\ \A l \in Loops : []<>(~CancelPending(l))
    /\ []<>(~(stopper = "waiting" /\ task # 0 /\ CancelPending(task)))
    /\ [][\A l \in Loops :
            (CancelPending(l) /\ ~CancelPending(l)')
                => /\ pc'[l] = "stopped"
                   /\ loop_stopped'
                   /\ loop_running' = "False"
                   /\ stopper' = "idle"]_vars
    /\ [][(stopper = "waiting" /\ stopper' = "idle") => loop_stopped']_vars
    /\ [][((\E l \in Loops : ~cancel[l] /\ cancel'[l]) /\ stopper' = "idle")
            => loop_stopped]_vars

\* A cancellation is pending at the backoff sleep while loop_stop() waits.
C2_Witness ==
    \E l \in Loops : cancel[l] /\ pc[l] = "backoff" /\ stopper = "waiting"

\* C3: who waits on synced is released by the end of an iteration whose sync
\* returned status 200 and whose processing went through, and by nothing
\* else (not by an iteration that ends in a sleep or a backoff); every such
\* end releases; and the event is never left set, so each wait() blocks anew.
C3_SyncedOncePerCycle ==
    /\ [](~synced)
    /\ [][(waiter = "waiting" /\ waiter' # "waiting")
            => /\ waiter' = "released"
               /\ \E l \in Loops : /\ pc[l] \in PostStages \cup {"sync"}
                                   /\ pc'[l] = "sync"
                                   /\ cyc'[l] = [st |-> "ok", up |-> 1, q |-> 1,
                                                 fired |-> 1]]_vars
    /\ [][\A l \in Loops :
            (/\ pc'[l] = "sync"
             /\ \/ pc[l] \in PostStages
                \/ pc[l] = "sync" /\ cyc[l].fired = 0 /\ cyc'[l].fired = 1)
                => waiter' # "waiting"]_vars
    /\ [][\A l \in Loops :
            (pc'[l] \in {"sleep", "backoff", "failed"} /\ pc[l] # pc'[l])
                => waiter' = waiter]_vars

\* A caller has been released by an iteration that went through.
C3_Witness ==
    \E l \in Loops : waiter = "released" /\ pc[l] = "sync" /\ cyc[l].fired = 1

\* C4: a run of N network faults of the sync call is followed by N backoff
\* sleeps, one after each fault, which only a cancellation cuts short; the
\* loop goes on, and the iteration whose sync then succeeds checks the key
\* upload once, the key query once and fires synced once.
C4_FaultsNotFatal ==
    \A l \in Loops :
        /\ cyc[l].st = "fault"
              => \/ pc[l] = "backoff" /\ naps[l] = streak[l] - 1
                 \/ pc[l] = "sync" /\ naps[l] = streak[l]
                 \/ pc[l] = "stopped"
        /\ cyc[l].st = "ok" => naps[l] = streak[l]
        /\ (cyc[l].st = "ok" /\ pc[l] = "sync")
              => cyc[l].up = 1 /\ cyc[l].q = 1 /\ cyc[l].fired = 1
        /\ cyc[l].up <= 1 /\ cyc[l].q <= 1 /\ cyc[l].fired <= 1

\* MaxFaults faults in a row, then an iteration that went through.
C4_Witness ==
    \E l \in Loops :
        /\ pc[l] = "sync"
        /\ cyc[l] = [st |-> "ok", up |-> 1, q |-> 1, fired |-> 1]
        /\ streak[l] = MaxFaults
        /\ naps[l] = MaxFaults

\* C5: an iteration whose sync returns a status other than 200 sleeps and
\* goes to the next sync call, and does nothing else: nothing is sent, no
\* task list is joined or cleared, no keys are uploaded or queried, nothing
\* is put on the queue, synced is not fired.
C5_Non200 ==
    [][\A l \in Loops :
         (\/ pc[l] = "sync" /\ pc'[l] = "sleep"
          \/ pc[l] = "sleep" /\ pc'[l] = "sync")
            => /\ UNCHANGED <<tasks, key_verificatins_tasks, key_request_tasks,
                              gath, outgoing_key_requests,
                              outgoing_to_device_messages, queue, putmsg,
                              verified, waiter, synced>>
               /\ cyc'[l] = NoCycle]_vars

\* The loop sleeps after a status other than 200 while tasks are in both
\* lists, a message is pending and a caller waits on synced.
C5_Witness ==
    \E l \in Loops :
        /\ pc[l] = "sleep"
        /\ key_request_tasks # <<>>
        /\ key_verificatins_tasks # <<>>
        /\ waiter = "waiting"

\* C6: no two sync calls of the session are in flight at the same time.
C6_SingleFlight == Cardinality({l \in Loops : pc[l] = "sync"}) <= 1

\* C7: the failure of a key-request or verification task does not end the
\* loop: the join that meets it does not leave the loop terminated.
C7_TaskFailureNotFatal ==
    [][\A l \in Loops :
         (pc[l] \in {"verif", "keyreq"} /\ ~cancel[l] /\ gres[l] \in Failures)
            => pc'[l] # "failed"]_vars

\* What the claims on the pipeline speak of: an encrypted room message is
\* an event that parses as a megolm event; the engine fails to decrypt one
\* when it has no session for the event's room and session identifier.
Encrypted(event) == parse_event(event) = "MegolmEvent"
Done(op) == called.op = op /\ called.ret # "none"
EventsIn(b, i) == b.rooms.join[i].room_dict.timeline.events
Kept(room) == ~Skipped(room.room_id)

\* C8: an event that is not an encrypted room message comes out of
\* pan_decrypt_event, of decrypt_messages_body and, in a known encrypted
\* room, of decrypt_sync_body as it went in, the same keys with the same
\* values, so with no `decrypted` key added; pan_decrypt_event returns False
\* for it and raises nothing.
C8_PlainEventsUntouched ==
    /\ (Done("pan_decrypt_event") /\ ~Encrypted(called.arg))
          => body = called.arg /\ called.ret = "False"
    /\ (Done("decrypt_messages_body") /\ "chunk" \in DOMAIN called.arg)
          => /\ Len(body["chunk"]) = Len(called.arg["chunk"])
             /\ \A i \in 1..Len(called.arg["chunk"]) :
                   ~Encrypted(called.arg["chunk"][i])
                      => body["chunk"][i] = called.arg["chunk"][i]
    /\ (Done("decrypt_messages_body") /\ "chunk" \notin DOMAIN called.arg)
          => body = called.arg
    /\ Done("decrypt_sync_body")
          => /\ Len(body.rooms.join) = Len(called.arg.rooms.join)
             /\ \A i \in 1..Len(called.arg.rooms.join) :
                   /\ Len(EventsIn(body, i)) = Len(EventsIn(called.arg, i))
                   /\ \A k \in 1..Len(EventsIn(called.arg, i)) :
                         (/\ Kept(called.arg.rooms.join[i])
                          /\ ~Encrypted(EventsIn(called.arg, i)[k]))
                            => EventsIn(body, i)[k] = EventsIn(called.arg, i)[k]

\* decrypt_sync_body went over an encrypted room holding an event that is
\* not encrypted, after one it decrypted.
C8_Witness ==
    /\ Done("decrypt_sync_body")
    /\ \E i \in 1..Len(called.arg.rooms.join) :
          /\ Kept(called.arg.rooms.join[i])
          /\ Len(EventsIn(body, i)) = 2
          /\ "decrypted" \in DOMAIN EventsIn(body, i)[1]
          /\ ~Encrypted(EventsIn(called.arg, i)[2])
          /\ "type" \in DOMAIN EventsIn(called.arg, i)[2]
          /\ EventsIn(called.arg, i)[2]["type"] = "m.room.encrypted"

\* C9: when the engine fails to decrypt an encrypted event, pan_decrypt_event
\* called with ignore_failures returns False and leaves the payload with the
\* type and the content of the placeholder, no `decrypted` key and its other
\* keys as they were; called without, it raises the EncryptionError and
\* leaves the payload as it was.
C9_DecryptFailure ==
    (/\ Done("pan_decrypt_event")
     /\ Encrypted(called.arg)
     /\ ~CanDecrypt(called.arg, called.room_id))
        => IF called.ignore_failures
           THEN /\ called.ret = "False"
                /\ body["type"] = unable_to_decrypt["type"]
                /\ body["content"] = unable_to_decrypt["content"]
                /\ "decrypted" \notin DOMAIN body
                /\ DOMAIN body = DOMAIN called.arg \cup {"type", "content"}
                /\ \A k \in DOMAIN called.arg \ {"type", "content"} :
                      body[k] = called.arg[k]
           ELSE /\ called.ret = "EncryptionError"
                /\ body = called.arg

\* The engine had no session for an event that names its room, and the
\* failure was ignored.
C9_Witness ==
    /\ Done("pan_decrypt_event")
    /\ called.ret = "False"
    /\ Encrypted(called.arg)
    /\ called.room_id = "!enc"
    /\ body["content"] = unable_to_decrypt["content"]

\* C10: decrypt_sync_body leaves every room it skips (unknown to the
\* session, or known and not encrypted) as it was, and the skipped rooms
\* change nothing for the others, wherever they stand in the body: the other
\* rooms come out, and the call returns or raises, as for the body without
\* the skipped rooms.
C10_SkippedRooms ==
    Done("decrypt_sync_body")
        => LET before == called.arg.rooms.join
               after == body.rooms.join
               alone == decrypt_sync_body(
                            [rooms |-> [join |-> SelectSeq(before, Kept)]],
                            called.ignore_failures)
           IN  /\ Len(after) = Len(before)
               /\ \A i \in 1..Len(before) :
                     Skipped(before[i].room_id) => after[i] = before[i]
               /\ SelectSeq(after, Kept) = alone.body.rooms.join
               /\ called.ret = alone.ret
               /\ (\A i \in 1..Len(before) : Skipped(before[i].room_id))
                     => called.ret = "returned"

\* A skipped room holding an encrypted event stands before an encrypted room
\* whose event was decrypted.
C10_Witness ==
    /\ Done("decrypt_sync_body")
    /\ Len(body.rooms.join) = 2
    /\ Skipped(body.rooms.join[1].room_id)
    /\ \E k \in 1..Len(EventsIn(body, 1)) : Encrypted(EventsIn(body, 1)[k])
    /\ \E k \in 1..Len(EventsIn(body, 2)) : "decrypted" \in DOMAIN EventsIn(body, 2)[k]

\* C11: an event is annotated at most once: pan_decrypt_event applied to
\* the payload a previous pan_decrypt_event call left behind (decrypted, or
\* replaced by the placeholder, or passed over) returns False and leaves the
\* payload as it is.
C11_AnnotatedOnce ==
    [][(/\ Done("pan_decrypt_event")
        /\ called.ret \in {"True", "False"}
        /\ called'.op = "pan_decrypt_event")
            => /\ body' = body
               /\ called'.ret = "False"]_vars

\* C12: encrypt() attempts the encryption; on a GroupEncryptionError, and
\* on nothing else, it shares the group session, once, and after the share
\* returned it tries once more; an error of the second attempt is what
\* encrypt() raises, with no further share or attempt; when the first
\* attempt succeeds (or raises another error) nothing is shared and that
\* outcome is the call's.
C12_ShareAndRetryOnce ==
    \A c \in Callers :
        LET e == enc[c]
        IN  e.pc # "idle" =>
              /\ e.attempts \in {1, 2}
              /\ e.shares \in {0, 1}
              /\ (e.shares = 1) <=> (e.first = "GroupEncryptionError")
              /\ e.first # "GroupEncryptionError"
                    => e.pc = "done" /\ e.attempts = 1 /\ e.ret = e.first
              /\ e.pc = "sharing" => e.attempts = 1
              /\ e.attempts = 2 => e.pc = "done" /\ e.shares = 1
              /\ (e.pc = "done" /\ e.ret = "GroupEncryptionError")
                    => e.attempts = 2 /\ e.shares = 1
              /\ (e.pc = "done" /\ e.attempts = 2)
                    => e.ret \in {"encrypted", "GroupEncryptionError"}

\* A call whose second attempt failed as the first did, and a call whose
\* first attempt succeeded.
C12_Witness ==
    /\ \E c \in Callers :
          /\ enc[c].pc = "done"
          /\ enc[c].ret = "GroupEncryptionError"
          /\ enc[c].attempts = 2
    /\ \E c \in Callers :
          /\ enc[c].pc = "done"
          /\ enc[c].first = "encrypted"
          /\ enc[c].shares = 0

\* C13: when the gather of the verification tasks ends with a
\* LocalProtocolError of one of them, the error is swallowed and the loop
\* goes on with the iteration, key_verificatins_tasks is empty afterwards,
\* and none of the other tasks gathered is dropped from the list while it
\* is still running.
C13_VerificationJoin ==
    [][\A l \in Loops :
         (pc[l] = "verif" /\ ~cancel[l] /\ gres[l] = "lpe" /\ pc'[l] # "verif")
            => /\ pc'[l] \in {"keyreq", "upload", "query", "put", "sync"}
               /\ cyc'[l].st = "ok"
               /\ key_verificatins_tasks' = <<>>
               /\ \A i \in gath[l] : tasks[i].st # "pending"]_vars

\* C14: a task spawned by a callback is joined in one iteration and then
\* discarded from its list: when the gather of a list has ended with every
\* task's result, none of the tasks gathered is in that list any more (so
\* that no later iteration joins it again).
C14_JoinedOnce ==
    [][\A l \in Loops :
         (/\ pc[l] \in {"verif", "keyreq"}
          /\ ~cancel[l]
          /\ gres[l] = "none"
          /\ pc'[l] # pc[l])
            => \A i \in gath[l] :
                  i \notin Range(key_verificatins_tasks') \cup Range(key_request_tasks')]_vars

\* C15: the steps of an iteration follow one another, each over before the
\* next begins: while the key upload or the key query of an iteration is
\* under way, no to-device send and no verification task is still running.
C15_StepsInOrder ==
    \A l \in Loops :
        pc[l] \in {"upload", "query"}
            => \A i \in TaskIds :
                  tasks[i].kind \in {"send", "accept", "sas"}
                      => tasks[i].st # "pending"

\* The states of the loop's state machine: Backoff is either sleep.
Syncing == PostStages \cup {"sync"}
Backoff == {"sleep", "backoff"}

\* C16: the loop follows Idle -> Syncing -> {Syncing, Backoff, Stopped},
\* Backoff -> {Syncing, Stopped}: it leaves Syncing and Backoff for no other
\* state, so it stops iterating only by entering Stopped, with loop_running
\* false and loop_stopped set; it enters Stopped only on a cancellation; and
\* once Stopped it stays there, issues no sync call and fires synced no
\* more.  (A task cancelled before its first step never leaves Idle.)
C16_StateMachine ==
    [][\A l \in Loops :
         /\ pc[l] \in {"none", "new"}
               => pc'[l] \in {"none", "new", "sync", "cancelled"}
         /\ pc[l] \in Syncing
               => pc'[l] \in Syncing \cup Backoff \cup {"stopped"}
         /\ pc[l] \in Backoff
               => pc'[l] \in {pc[l], "sync", "stopped"}
         /\ (pc[l] # "stopped" /\ pc'[l] = "stopped")
               => cancel[l] /\ loop_running' = "False" /\ loop_stopped'
         /\ pc[l] = "stopped"
               => pc'[l] = "stopped" /\ cyc'[l] = cyc[l]]_vars

\* C17: the dispatcher does nothing when no to-device message is pending;
\* else it starts one send per pending message, and it is left only when
\* every send it started has finished, whether or not a send failed.
C17_Dispatcher ==
    [][\A l \in Loops :
         /\ (pc[l] = "sync" /\ pc'[l] \in PostStages)
               => IF outgoing_to_device_messages' = {}
                  THEN pc'[l] # "send" /\ tasks' = tasks
                  ELSE /\ pc'[l] = "send"
                       /\ Cardinality(gath'[l]) = Cardinality(outgoing_to_device_messages')
                       /\ \A m \in outgoing_to_device_messages' :
                             \E i \in gath'[l] :
                                /\ tasks[i] = NoTask
                                /\ tasks'[i] = [kind |-> "send", key |-> m,
                                                st |-> "pending"]
         /\ (pc[l] = "send" /\ ~cancel[l] /\ pc'[l] # "send")
               => \A i \in gath[l] : tasks[i].st # "pending"]_vars

\* C18: no deleted device is ever marked verified.  A key query that was
\* due ends in one of two ways: with changed devices, and then every
\* changed device that is not deleted is marked verified and one
\* DevicesMessage with the session's user_id and the changed devices is put
\* on the queue (at once, or the put waits for room in the queue); or
\* without a KeysQueryResponse, and then no device is marked and nothing is
\* put.  Nothing else marks a device or puts a message: the queue grows only
\* by that one message, whose devices are marked by then.
C18_DeviceTrust ==
    /\ [](verified \cap Deleted = {})
    /\ [](\A k \in 1..Len(queue) :
            /\ queue[k].user_id = user_id
            /\ queue[k].changed \ Deleted \subseteq verified)
    /\ [][\A l \in Loops :
            (pc[l] = "query" /\ ~cancel[l] /\ pc'[l] # "query")
               => \/ \E changed \in ChangedSets :
                       LET m == [user_id |-> user_id, changed |-> changed]
                       IN  /\ verified' = verified \cup (changed \ Deleted)
                           /\ \/ /\ queue' = Append(queue, m)
                                 /\ pc'[l] = "sync"
                              \/ /\ Len(queue) = MaxQueue
                                 /\ queue' = queue
                                 /\ pc'[l] = "put"
                                 /\ putmsg'[l] = <<m>>
                  \/ /\ verified' = verified
                     /\ queue' = queue
                     /\ pc'[l] \in {"sync", "backoff", "failed"}
                     /\ putmsg'[l] = <<>>]_vars
    /\ [][(verified' # verified \/ Len(queue') > Len(queue))
            => \E l \in Loops :
                  \/ pc[l] = "query" /\ ~cancel[l] /\ pc'[l] # "query"
                  \/ /\ pc[l] = "put" /\ ~cancel[l] /\ pc'[l] = "sync"
                     /\ verified' = verified
                     /\ queue' = Append(queue, putmsg[l][1])]_vars

\* A notification is in the queue, its device marked, and the put of the
\* next key query's notification waits for room.
C18_Witness ==
    /\ queue # <<>>
    /\ verified = {"d1"}
    /\ \E l \in Loops : pc[l] = "put" /\ putmsg[l] # <<>>

\* C19: key_verification_cb makes one accept_key_verification task for a
\* KeyVerificationStart and one accept_short_auth_string task for a
\* KeyVerificationMac, for the event's transaction_id, and appends it to
\* key_verificatins_tasks, touching no other task; a KeyVerificationKey
\* makes no task and changes no list, and without a handshake for its
\* transaction nothing at all is done with it.
C19_VerificationCallback ==
    [][delivered'.tick # delivered.tick
         => LET e == delivered'
                Spawned(kind) ==
                    \E i \in TaskIds :
                       /\ tasks[i] = NoTask
                       /\ tasks' = [tasks EXCEPT ![i] =
                                       [kind |-> kind, key |-> e.key,
                                        st |-> "pending"]]
                       /\ key_verificatins_tasks' = Append(key_verificatins_tasks, i)
                       /\ key_request_tasks' = key_request_tasks
            IN  /\ e.ev = "start" => Spawned("accept")
                /\ e.ev = "mac" => Spawned("sas")
                /\ e.ev = "key"
                      => /\ tasks' = tasks
                         /\ key_verificatins_tasks' = key_verificatins_tasks
                         /\ key_request_tasks' = key_request_tasks
                         /\ ~e.sas => ~e.shown]_vars

\* A Start of one transaction and a Mac of another have each made their
\* task, and a Key without a handshake came last.
C19_Witness ==
    /\ delivered.ev = "key"
    /\ ~delivered.sas
    /\ key_verificatins_tasks = <<1, 2>>
    /\ tasks[1] = [kind |-> "accept", key |-> "t1", st |-> "pending"]
    /\ tasks[2] = [kind |-> "sas", key |-> "t2", st |-> "pending"]

\* C20: whenever the loop task has terminated, for whatever reason,
\* loop_stopped is set and loop_running is false, and no loop_stop() is left
\* waiting for a loop task that has terminated.
C20_TerminatedMeansStopped ==
    \A l \in Loops :
        pc[l] \in Terminal
            => /\ loop_stopped
               /\ loop_running = "False"
               /\ ~(stopper = "waiting" /\ task = l)

====
